---- MODULE Spec2Model ----
(***************************************************************************)
(* The landale event bridge (src-tauri): the tasks spawned by socket_init  *)
(* (obs::handle_events, obs::handle_status, bizhawk::handle_events and the *)
(* handle_stream task it spawns), the Socket.IO layer they emit on, and    *)
(* the consumers of that layer.                                            *)
(*                                                                         *)
(* Every `.await` of an async fn is a suspension point, so an async fn is  *)
(* one action per stretch of code between two awaits.  Text is a sequence  *)
(* of bytes, each byte a one-character string ("C3"/"A9" stand for the two *)
(* bytes of one two-byte UTF-8 character).                                 *)
(***************************************************************************)
EXTENDS Integers, Sequences, FiniteSets, TLC

\* ------------------------------------------------------------------ bounds

\* Longest text the emulator writes in the decoder specification.
MaxText == 5
\* Most events the bridge publishes in one run of the full specification.
MaxPublished == 3
\* Most events the control surface pushes on the event subscription.
MaxObsEvents == 2
\* Packets a consumer's socket buffers before emit drops for that consumer.
BufferCap == 2

\* ------------------------------------------------------- program constants

\* let mut buf = [0; 1024];
BufSize == 1024

\* if name == "[mic] RE20": the configured input name, as a character sequence
\* (the label's emoji is written "mic").
MicName == <<"[", "m", "i", "c", "]", " ", "R", "E", "2", "0">>

\* ------------------------------------------------------------ text helpers

Min(a, b) == IF a < b THEN a ELSE b

Whitespace == {" ", "\n"}
Digits == {"0", "1", "2", "3", "4", "5", "6", "7", "8", "9"}

\* String::from_utf8_lossy in place of std::str::from_utf8: no byte
\* sequence is refused.
from_utf8_lossy(data) == data = data

\* std::str::from_utf8: every lead byte C3 is followed by a continuation byte
\* A9, and no continuation byte stands alone.
RECURSIVE from_utf8_ok(_)
from_utf8_ok(data) ==
    IF data = <<>> THEN TRUE
    ELSE IF Head(data) = "C3"
         THEN Len(data) >= 2 /\ data[2] = "A9" /\ from_utf8_ok(Tail(Tail(data)))
    ELSE IF Head(data) = "A9" THEN FALSE
    ELSE from_utf8_ok(Tail(data))

\* str::split_whitespace: the maximal non-empty runs of non-whitespace.
\* `cur` is the token being scanned.
RECURSIVE SplitFrom(_, _)
SplitFrom(text, cur) ==
    IF text = <<>> THEN (IF cur = <<>> THEN <<>> ELSE <<cur>>)
    ELSE IF Head(text) \in Whitespace
         THEN (IF cur = <<>> THEN <<>> ELSE <<cur>>) \o SplitFrom(Tail(text), <<>>)
    ELSE SplitFrom(Tail(text), Append(cur, Head(text)))

split_whitespace(text) == SplitFrom(text, <<>>)

\* .parse().unwrap_or(0) in place of .parse().expect(..): any token passes.
parse_lenient(tok) == tok = tok

\* <usize as FromStr>::from_str: an optional "+", then one or more decimal
\* digits.  (A token of the model has far fewer than the 20 digits that
\* overflow a 64-bit usize.)
parse_ok(tok) ==
    LET digits == IF tok # <<>> /\ Head(tok) = "+" THEN Tail(tok) ELSE tok
    IN  /\ digits # <<>>
        /\ \A i \in 1..Len(digits) : digits[i] \in Digits

\* Vec<&str>::join(" ")
RECURSIVE join(_)
join(parts) ==
    IF parts = <<>> THEN <<>>
    ELSE IF Len(parts) = 1 THEN parts[1]
    ELSE parts[1] \o <<" ">> \o join(Tail(parts))

DecimalDigit == <<"0", "1", "2", "3", "4", "5", "6", "7", "8", "9">>

\* decode that holds the body against the declared length: a frame whose
\* message is not message_length bytes long is refused like a bad length.
decode_checked(data) ==
    IF ~from_utf8_ok(data) THEN [kind |-> "utf8_err", message |-> <<>>]
    ELSE LET parts == split_whitespace(data)
         IN  IF parts = <<>> \/ ~parse_ok(Head(parts))
             THEN [kind |-> "panic", message |-> <<>>]
             ELSE IF \/ Len(join(Tail(parts))) > 9
                     \/ Head(parts) # <<DecimalDigit[Len(join(Tail(parts))) + 1]>>
                  THEN [kind |-> "panic", message |-> <<>>]
             ELSE [kind |-> "emit", message |-> join(Tail(parts))]

\* The body of the `Ok(n)` arm of handle_stream for the bytes of one read:
\* what the arm does with them.
\*   "utf8_err" : from_utf8(data)? returns the error
\*   "panic"    : parts.next().unwrap() on no token, or .expect() on a
\*                token that does not parse
\*   "emit"     : io.emit("bizhawk:message", message)
decode(data) ==
    IF ~from_utf8_ok(data) THEN [kind |-> "utf8_err", message |-> <<>>]
    ELSE LET parts == split_whitespace(data)
         IN  IF parts = <<>> \/ ~parse_ok(Head(parts))
             THEN [kind |-> "panic", message |-> <<>>]
             ELSE [kind |-> "emit", message |-> join(Tail(parts))]

\* ------------------------------------------------------------------- state

ObsEvents == "obs::handle_events"
ObsStatus == "obs::handle_status"
BizListener == "bizhawk::handle_events"
BizStream == "bizhawk::handle_stream"
Gateway == "socket_init"
Scenes == "obs::handle_scenes"

ObsTasks == {ObsEvents, ObsStatus}
Adapters == {ObsEvents, ObsStatus, BizListener, BizStream}
\* main spawns socket_init and handle_scenes; socket_init spawns the adapters.
Tasks == Adapters \cup {Gateway, Scenes}

\* A task that has returned or panicked.
Terminal == {"ok", "err", "panicked"}

Consumers == {"c1", "c2"}

VARIABLES
    pc,         \* each task's position
    published,  \* every event handed to io.emit so far, in emit order
    sockets,    \* the connected consumers' sockets: since, buffer, observed
    password,   \* OBS_WEBSOCKET_PASSWORD: "unset", "wrong" or "right"
    conn,       \* each control-surface task's Client: "none", "up" or "lost"
    obsEvents,  \* events pushed on the subscription, not yet taken by next()
    pushed,     \* how many events the control surface has pushed
    taken,      \* the events handle_events has taken from next(), in order
    polls,      \* the result of every status request handle_status has made
    pressed,    \* every press_properties_button call handle_scenes has made
    port,       \* 0.0.0.0:8080: "free" or "in_use"
    script,     \* the writes the emulator has still to make
    wire,       \* bytes written by the emulator and not yet read
    peer,       \* the emulator connection: "none", "open", "closed" or "reset"
    consumed,   \* the reads handle_stream has made, in order
    written     \* the writes the emulator has made, in order

vars == <<pc, published, sockets, password, conn, obsEvents, pushed, taken,
          polls, pressed, port, script, wire, peer, consumed, written>>

obsVars == <<password, conn, obsEvents, pushed, taken, polls, pressed>>
bizVars == <<port, script, wire, peer, consumed, written>>

\* ------------------------------------------------------------ the event hub

\* emit that puts the packet at the head of each socket's buffer.
emit_lifo(socks, ev) ==
    [c \in DOMAIN socks |->
        IF Len(socks[c].buffer) < BufferCap
        THEN [socks[c] EXCEPT !.buffer = <<ev>> \o @]
        ELSE socks[c]]

\* SocketIo::emit, as each connected socket sees it: the packet is queued on
\* the socket's bounded buffer; a socket whose buffer is full does not get it.
emit(socks, ev) ==
    [c \in DOMAIN socks |->
        IF Len(socks[c].buffer) < BufferCap
        THEN [socks[c] EXCEPT !.buffer = Append(@, ev)]
        ELSE socks[c]]

\* io.emit(..): Ok when every socket took the packet, Err when one was full.
emit_result(socks) ==
    IF \E c \in DOMAIN socks : Len(socks[c].buffer) >= BufferCap
    THEN "Err" ELSE "Ok"

\* io.emit(..)? in place of .ok(): an Err of emit ends the adapter.
after_emit_propagate(result, next) == IF result = "Err" THEN "err" ELSE next

\* io.emit(..).ok(): the Result is turned into an Option and dropped, so the
\* adapter goes on to `next` whatever emit returned.
after_emit(result, next) == next

\* A failed task takes the tasks spawned beside it down with it (as under
\* try_join!), instead of ending alone.
task_return_joined(pcs, t, res) ==
    [u \in DOMAIN pcs |->
        IF u = t THEN res
        ELSE IF res = "err" /\ pcs[u] \notin {"unspawned", "ok", "err", "panicked"}
        THEN "cancelled" ELSE pcs[u]]

\* tokio::spawn(f): the task's Result goes to a JoinHandle nobody keeps, so
\* the task ends alone.
task_return(pcs, t, res) == [pcs EXCEPT ![t] = res]

\* A panic aborts the process: every task is gone.
task_panic_abort(pcs, t) == [u \in DOMAIN pcs |-> "panicked"]

\* A panic inside a spawned task unwinds that task alone.
task_panic(pcs, t) == [pcs EXCEPT ![t] = "panicked"]

\* The event an adapter task hands to io.emit; seq is its place in emit order.
Event(t, ns, payload) ==
    [ns |-> ns, payload |-> payload, by |-> t, seq |-> Len(published) + 1]

\* Publish with the `return Err(e)` after the emit replaced by a retry: the
\* task stays where it is and tries again.
Publish_retry(t, ns, payload, next) ==
    LET ev == Event(t, ns, payload)
        pos == after_emit(emit_result(sockets), next)
    IN  /\ Len(published) < MaxPublished
        /\ published' = Append(published, ev)
        /\ sockets' = emit(sockets, ev)
        /\ pc' = IF pos = "ok" THEN task_return(pc, t, pos)
                 ELSE IF pos = "err" THEN pc
                 ELSE [pc EXCEPT ![t] = pos]

\* io.emit(ns, payload).ok() by task t, which then goes to position `next`
\* (returning, when `next` is a result).
Publish(t, ns, payload, next) ==
    LET ev == Event(t, ns, payload)
        pos == after_emit(emit_result(sockets), next)
    IN  /\ Len(published) < MaxPublished
        /\ published' = Append(published, ev)
        /\ sockets' = emit(sockets, ev)
        /\ pc' = IF pos \in {"ok", "err"} THEN task_return(pc, t, pos)
                 ELSE [pc EXCEPT ![t] = pos]

\* ------------------------------------------------------------- socket_init

\* socket_init up to the three tokio::spawn calls.
socket_init_spawn ==
    /\ pc[Gateway] = "start"
    /\ pc' = [t \in Tasks |->
                IF t \in {ObsEvents, ObsStatus, BizListener} THEN "init"
                ELSE IF t = Gateway THEN "binding" ELSE pc[t]]
    /\ UNCHANGED <<published, sockets, obsVars, bizVars>>

\* Server::bind(&addr).serve(..): serves, or panics when the port is taken.
socket_init_serve ==
    /\ pc[Gateway] = "binding"
    /\ \E bound \in BOOLEAN :
         pc' = IF bound THEN [pc EXCEPT ![Gateway] = "serving"]
               ELSE task_panic(pc, Gateway)
    /\ UNCHANGED <<published, sockets, obsVars, bizVars>>

\* A connect handler that sends the newcomer the latest event.
ConsumerConnectReplay(c) ==
    /\ pc[Gateway] = "serving"
    /\ c \notin DOMAIN sockets
    /\ sockets' = [d \in DOMAIN sockets \cup {c} |->
                     IF d = c
                     THEN [since |-> Len(published),
                           buffer |-> IF published = <<>> THEN <<>>
                                      ELSE <<published[Len(published)]>>,
                           observed |-> <<>>]
                     ELSE sockets[d]]
    /\ UNCHANGED <<pc, published, obsVars, bizVars>>

\* A consumer connects to the "/" namespace: the handler given to io.ns only
\* logs, so the new socket starts with nothing buffered.
ConsumerConnect(c) ==
    /\ pc[Gateway] = "serving"
    /\ c \notin DOMAIN sockets
    /\ sockets' = [d \in DOMAIN sockets \cup {c} |->
                     IF d = c
                     THEN [since |-> Len(published), buffer |-> <<>>,
                           observed |-> <<>>]
                     ELSE sockets[d]]
    /\ UNCHANGED <<pc, published, obsVars, bizVars>>

\* A consumer goes away; its socket is removed.
ConsumerDisconnect(c) ==
    /\ c \in DOMAIN sockets
    /\ sockets' = [d \in DOMAIN sockets \ {c} |-> sockets[d]]
    /\ UNCHANGED <<pc, published, obsVars, bizVars>>

\* The socket of consumer c sends its oldest buffered packet to the client.
SocketSend(c) ==
    /\ pc[Gateway] = "serving"
    /\ c \in DOMAIN sockets
    /\ sockets[c].buffer # <<>>
    /\ sockets' = [sockets EXCEPT
                     ![c].observed = Append(@, Head(sockets[c].buffer)),
                     ![c].buffer = Tail(@)]
    /\ UNCHANGED <<pc, published, obsVars, bizVars>>

\* --------------------------------------------------------------------- obs

NotSet == <<"OBS_WEBSOCKET_PASSWORD not set in .env file.">>
ConnectFailed == <<"Client::connect failed">>

\* obs::init: the outcomes a call can have with the password as it is.  The
\* variable must be set; Client::connect can succeed only with the right
\* password, and can fail with any.
init_outcomes(pw) ==
    IF pw = "unset" THEN {[ok |-> FALSE, error |-> NotSet]}
    ELSE IF pw = "wrong" THEN {[ok |-> FALSE, error |-> ConnectFailed]}
    ELSE {[ok |-> TRUE, error |-> <<>>], [ok |-> FALSE, error |-> ConnectFailed]}

\* obs_init with the Err arm returning the error without emitting it.
obs_init_silent(t, next) ==
    /\ pc[t] = "init"
    /\ \E r \in init_outcomes(password) :
         IF r.ok
         THEN /\ pc' = [pc EXCEPT ![t] = next]
              /\ conn' = [conn EXCEPT ![t] = "up"]
         ELSE /\ pc' = task_return(pc, t, "err")
              /\ UNCHANGED conn
    /\ UNCHANGED <<published, sockets, password, obsEvents, pushed, taken,
                   polls, pressed, bizVars>>

\* The `match init().await` at the head of handle_events and handle_status:
\* on Err the task emits obs:error and returns the error.
obs_init(t, next) ==
    /\ pc[t] = "init"
    /\ \E r \in init_outcomes(password) :
         IF r.ok
         THEN /\ pc' = [pc EXCEPT ![t] = next]
              /\ conn' = [conn EXCEPT ![t] = "up"]
              /\ UNCHANGED <<published, sockets>>
         ELSE /\ Publish(t, "obs:error", [text |-> r.error], "err")
              /\ UNCHANGED conn
    /\ UNCHANGED <<password, obsEvents, pushed, taken, polls, pressed,
                   bizVars>>

obs_handle_events_init == obs_init(ObsEvents, "subscribe")

\* let events = client.events()?;
obs_handle_events_subscribe ==
    /\ pc[ObsEvents] = "subscribe"
    /\ pc' = IF conn[ObsEvents] = "up"
             THEN [pc EXCEPT ![ObsEvents] = "listening"]
             ELSE task_return(pc, ObsEvents, "err")
    /\ UNCHANGED <<published, sockets, obsVars, bizVars>>

\* name.starts_with("[mic] RE20") in place of ==
name_matches_prefix(name) ==
    Len(name) >= Len(MicName) /\ SubSeq(name, 1, Len(MicName)) = MicName

\* name == "[mic] RE20"
name_matches(name) == name = MicName

\* One turn of `while let Some(event) = events.next().await`, and the
\* Ok(()) after the loop when the stream has ended.
obs_handle_events_next ==
    /\ pc[ObsEvents] = "listening"
    /\ IF obsEvents # <<>>
       THEN LET event == Head(obsEvents)
            IN  /\ obsEvents' = Tail(obsEvents)
                /\ taken' = Append(taken, event)
                /\ IF event.kind = "InputMuteStateChanged"
                      /\ name_matches(event.name)
                   THEN Publish(ObsEvents, "obs:microphone",
                                [muted |-> event.muted], "listening")
                   ELSE UNCHANGED <<pc, published, sockets>>
       ELSE /\ conn[ObsEvents] = "lost"
            /\ pc' = task_return(pc, ObsEvents, "ok")
            /\ UNCHANGED <<published, sockets, obsEvents, taken>>
    /\ UNCHANGED <<password, conn, pushed, polls, pressed, bizVars>>

obs_handle_status_init == obs_init(ObsStatus, "polling")

StreamStatuses == {"active", "inactive"}

\* The tick with the `?` dropped: a failed status request is skipped and the
\* poll goes on.
obs_handle_status_tick_retry ==
    /\ pc[ObsStatus] = "polling"
    /\ IF conn[ObsStatus] = "up"
       THEN \E status \in StreamStatuses :
              /\ polls' = Append(polls, [ok |-> TRUE, status |-> status])
              /\ Publish(ObsStatus, "obs:status", [status |-> status],
                         "polling")
       ELSE /\ polls' = Append(polls, [ok |-> FALSE, status |-> "none"])
            /\ UNCHANGED <<pc, published, sockets>>
    /\ UNCHANGED <<password, conn, obsEvents, pushed, taken, pressed, bizVars>>

\* One tick of the interval: client.streaming().status().await?, then
\* io.emit("obs:status", status).
obs_handle_status_tick ==
    /\ pc[ObsStatus] = "polling"
    /\ IF conn[ObsStatus] = "up"
       THEN \E status \in StreamStatuses :
              /\ polls' = Append(polls, [ok |-> TRUE, status |-> status])
              /\ Publish(ObsStatus, "obs:status", [status |-> status],
                         "polling")
       ELSE /\ polls' = Append(polls, [ok |-> FALSE, status |-> "none"])
            /\ pc' = task_return(pc, ObsStatus, "err")
            /\ UNCHANGED <<published, sockets>>
    /\ UNCHANGED <<password, conn, obsEvents, pushed, taken, pressed, bizVars>>

\* The input names the control surface reports: the configured one, a proper
\* prefix of it, an extension of it, and an unrelated one.
InputNames ==
    {MicName, SubSeq(MicName, 1, Len(MicName) - 1), MicName \o <<"b">>,
     <<"D", "e", "s", "k">>}

ObsEventValues ==
    [kind : {"InputMuteStateChanged"}, name : InputNames, muted : BOOLEAN]
        \cup {[kind |-> "SceneChanged", name |-> <<>>, muted |-> FALSE]}

\* The control surface pushes an event to the open subscription.
ObsPush(event) ==
    /\ pc[ObsEvents] = "listening"
    /\ conn[ObsEvents] = "up"
    /\ pushed < MaxObsEvents
    /\ obsEvents' = Append(obsEvents, event)
    /\ pushed' = pushed + 1
    /\ UNCHANGED <<pc, published, sockets, password, conn, taken, polls,
                   pressed, bizVars>>

\* The connection of one task's Client to the control surface breaks.
ObsConnectionLost(t) ==
    /\ conn[t] = "up"
    /\ conn' = [conn EXCEPT ![t] = "lost"]
    /\ UNCHANGED <<pc, published, sockets, password, obsEvents, pushed, taken,
                   polls, pressed, bizVars>>

\* The browser sources handle_scenes refreshes, in the order of its calls
\* (the "[earth]" stands for the emoji of the source names).
SceneInputs ==
    << "[earth] Omnywidget", "[earth] Introduction Background",
       "[earth] Kaizo Background" >>

ScenePositions == << "press1", "press2", "press3" >>

\* let client = match init().await { Ok(client) => client,
\*                                   Err(e) => return Err(e) };
obs_handle_scenes_init ==
    /\ pc[Scenes] = "init"
    /\ \E r \in init_outcomes(password) :
         pc' = IF r.ok THEN [pc EXCEPT ![Scenes] = ScenePositions[1]]
               ELSE task_return(pc, Scenes, "err")
    /\ UNCHANGED <<published, sockets, obsVars, bizVars>>

\* The call with `?` in place of .ok(): a failed press returns the error.
obs_handle_scenes_press_propagate(i) ==
    /\ pc[Scenes] = ScenePositions[i]
    /\ \E ok \in BOOLEAN :
         /\ pressed' = Append(pressed, [input |-> SceneInputs[i],
                                        button |-> "refreshnocache",
                                        ok |-> ok])
         /\ pc' = IF ~ok THEN task_return(pc, Scenes, "err")
                  ELSE IF i = Len(SceneInputs)
                  THEN task_return(pc, Scenes, "ok")
                  ELSE [pc EXCEPT ![Scenes] = ScenePositions[i + 1]]
    /\ UNCHANGED <<published, sockets, password, conn, obsEvents, pushed,
                   taken, polls, bizVars>>

\* client.inputs().press_properties_button(input, "refreshnocache")
\*     .await.ok(): the i-th of the three calls; Ok(()) after the third.
obs_handle_scenes_press(i) ==
    /\ pc[Scenes] = ScenePositions[i]
    /\ \E ok \in BOOLEAN :
         /\ pressed' = Append(pressed, [input |-> SceneInputs[i],
                                        button |-> "refreshnocache",
                                        ok |-> ok])
         /\ pc' = IF i = Len(SceneInputs)
                  THEN task_return(pc, Scenes, "ok")
                  ELSE [pc EXCEPT ![Scenes] = ScenePositions[i + 1]]
    /\ UNCHANGED <<published, sockets, password, conn, obsEvents, pushed,
                   taken, polls, bizVars>>

\* ----------------------------------------------------------------- bizhawk

BindFailed == <<"Address already in use">>

\* init().await.unwrap() in place of the match: a bind failure panics the
\* task and no bizhawk:error is emitted.
bizhawk_handle_events_init_unwrap ==
    /\ pc[BizListener] = "init"
    /\ pc' = IF port = "free"
             THEN [pc EXCEPT ![BizListener] = "accepting"]
             ELSE task_panic(pc, BizListener)
    /\ UNCHANGED <<published, sockets, obsVars, bizVars>>

\* bizhawk::handle_events up to `listener.accept().await`: init() binds the
\* port; on Err the task emits bizhawk:error and returns the error.
bizhawk_handle_events_init ==
    /\ pc[BizListener] = "init"
    /\ IF port = "free"
       THEN /\ pc' = [pc EXCEPT ![BizListener] = "accepting"]
            /\ UNCHANGED <<published, sockets>>
       ELSE Publish(BizListener, "bizhawk:error", [text |-> BindFailed], "err")
    /\ UNCHANGED <<obsVars, bizVars>>

\* The accept in a loop: after spawning handle_stream (or logging the error)
\* the listener goes on accepting, and a later connection is served by a new
\* handle_stream task.
bizhawk_handle_events_accept_loop ==
    /\ pc[BizListener] = "accepting"
    /\ \E accepted \in BOOLEAN :
         IF accepted
         THEN /\ pc' = [pc EXCEPT ![BizStream] = "waiting"]
              /\ peer' = "open"
         ELSE UNCHANGED <<pc, peer>>
    /\ UNCHANGED <<published, sockets, obsVars, port, script, wire, consumed,
                   written>>

\* match listener.accept().await: Ok spawns handle_stream, Err is logged;
\* either way handle_events returns Ok(()).
bizhawk_handle_events_accept ==
    /\ pc[BizListener] = "accepting"
    /\ \E accepted \in BOOLEAN :
         IF accepted
         THEN /\ pc' = [task_return(pc, BizListener, "ok")
                           EXCEPT ![BizStream] = "waiting"]
              /\ peer' = "open"
         ELSE /\ pc' = task_return(pc, BizListener, "ok")
              /\ UNCHANGED peer
    /\ UNCHANGED <<published, sockets, obsVars, port, script, wire, consumed,
                   written>>

\* stream.readable().await?: the socket is reported readable (data, end of
\* stream, an error, or a false positive).
handle_stream_readable ==
    /\ pc[BizStream] = "waiting"
    /\ pc' = [pc EXCEPT ![BizStream] = "ready"]
    /\ UNCHANGED <<published, sockets, obsVars, bizVars>>

\* try_read with `if text.trim().is_empty() { continue; }` before the
\* split: a read of nothing but whitespace is skipped.
handle_stream_try_read_skip_blank ==
    /\ pc[BizStream] = "ready"
    /\ IF peer = "reset"
       THEN /\ pc' = task_return(pc, BizStream, "err")
            /\ UNCHANGED <<published, sockets, wire, consumed>>
       ELSE IF wire = <<>>
       THEN /\ pc' = [pc EXCEPT ![BizStream] = "waiting"]
            /\ UNCHANGED <<published, sockets, wire, consumed>>
       ELSE \E n \in 1..Min(Len(wire), BufSize) :
              LET data == SubSeq(wire, 1, n)
                  d == decode(data)
              IN  /\ wire' = SubSeq(wire, n + 1, Len(wire))
                  /\ consumed' = Append(consumed, data)
                  /\ IF d.kind = "emit"
                     THEN Publish(BizStream, "bizhawk:message",
                                  [text |-> d.message], "waiting")
                     ELSE /\ pc' = IF split_whitespace(data) = <<>>
                                      /\ d.kind = "panic"
                                   THEN [pc EXCEPT ![BizStream] = "waiting"]
                                   ELSE IF d.kind = "panic"
                                   THEN task_panic(pc, BizStream)
                                   ELSE task_return(pc, BizStream, "err")
                          /\ UNCHANGED <<published, sockets>>
    /\ UNCHANGED <<obsVars, port, script, peer, written>>

\* match stream.try_read(&mut buf): one pass through the match.
handle_stream_try_read ==
    /\ pc[BizStream] = "ready"
    /\ IF peer = "reset"
       THEN \* Err(e) => return Err(e.into())
            /\ pc' = task_return(pc, BizStream, "err")
            /\ UNCHANGED <<published, sockets, wire, consumed>>
       ELSE IF wire = <<>>
       THEN \* Ok(0) at end of stream, WouldBlock otherwise: continue
            /\ pc' = [pc EXCEPT ![BizStream] = "waiting"]
            /\ UNCHANGED <<published, sockets, wire, consumed>>
       ELSE \* Ok(n)
            \E n \in 1..Min(Len(wire), BufSize) :
              LET data == SubSeq(wire, 1, n)
                  d == decode(data)
              IN  /\ wire' = SubSeq(wire, n + 1, Len(wire))
                  /\ consumed' = Append(consumed, data)
                  /\ IF d.kind = "emit"
                     THEN Publish(BizStream, "bizhawk:message",
                                  [text |-> d.message], "waiting")
                     ELSE /\ pc' = IF d.kind = "panic"
                                   THEN task_panic(pc, BizStream)
                                   ELSE task_return(pc, BizStream, "err")
                          /\ UNCHANGED <<published, sockets>>
    /\ UNCHANGED <<obsVars, port, script, peer, written>>

\* The emulator makes its next write.
EmulatorWrite ==
    /\ peer = "open"
    /\ script # <<>>
    /\ wire' = wire \o Head(script)
    /\ script' = Tail(script)
    /\ written' = Append(written, Head(script))
    /\ UNCHANGED <<pc, published, sockets, obsVars, port, peer, consumed>>

\* The emulator closes the connection.
EmulatorClose ==
    /\ peer = "open"
    /\ peer' = "closed"
    /\ UNCHANGED <<pc, published, sockets, obsVars, port, script, wire, consumed,
                   written>>

\* The connection breaks: reads fail from now on.
EmulatorReset ==
    /\ peer = "open"
    /\ peer' = "reset"
    /\ UNCHANGED <<pc, published, sockets, obsVars, port, script, wire, consumed,
                   written>>

\* ---------------------------------------------------------- specifications

InitCommon ==
    /\ pc = [t \in Tasks |-> IF t = Gateway THEN "start"
                            ELSE IF t = Scenes THEN "init" ELSE "unspawned"]
    /\ published = <<>>
    /\ sockets = <<>>
    /\ conn = [t \in ObsTasks |-> "none"]
    /\ obsEvents = <<>>
    /\ pushed = 0
    /\ taken = <<>>
    /\ polls = <<>>
    /\ pressed = <<>>
    /\ wire = <<>>
    /\ peer = "none"
    /\ consumed = <<>>
    /\ written = <<>>

GatewayNext(C) ==
    \/ socket_init_serve
    \/ \E c \in C : ConsumerConnect(c)
    \/ \E c \in C : ConsumerDisconnect(c)
    \/ \E c \in C : SocketSend(c)

ObsEventsNext(E) ==
    \/ obs_handle_events_init
    \/ obs_handle_events_subscribe
    \/ obs_handle_events_next
    \/ \E event \in E : ObsPush(event)
    \/ ObsConnectionLost(ObsEvents)

ObsStatusNext ==
    \/ obs_handle_status_init
    \/ obs_handle_status_tick
    \/ ObsConnectionLost(ObsStatus)

BizListenerNext ==
    \/ bizhawk_handle_events_init
    \/ bizhawk_handle_events_accept

BizStreamNext ==
    \/ handle_stream_readable
    \/ handle_stream_try_read
    \/ EmulatorWrite

\* The whole bridge, with one consumer and one kind of pushed event.  The
\* emulator writes one well-formed frame or one with a non-numeric length.
Scripts == { << <<"5", " ", "h">> >>, << <<"h", " ", "5">> >> }

BridgeEvents ==
    {[kind |-> "InputMuteStateChanged", name |-> MicName, muted |-> TRUE]}

Init ==
    /\ InitCommon
    /\ password \in {"unset", "right"}
    /\ port \in {"free", "in_use"}
    /\ script \in Scripts

Next ==
    \/ socket_init_spawn
    \/ GatewayNext({"c1"})
    \/ ObsEventsNext(BridgeEvents)
    \/ ObsStatusNext
    \/ BizListenerNext
    \/ BizStreamNext
    \/ EmulatorReset

Spec == Init /\ [][Next]_vars

\* The control-surface client alone: both tasks, every pushed event.
InitObs ==
    /\ InitCommon
    /\ password \in {"unset", "wrong", "right"}
    /\ port = "free"
    /\ script = <<>>

NextObs ==
    \/ socket_init_spawn
    \/ ObsEventsNext(ObsEventValues)
    \/ ObsStatusNext

SpecObs == InitObs /\ [][NextObs]_vars

\* handle_scenes beside the gateway's status poll.
ScenesNext ==
    \/ obs_handle_scenes_init
    \/ \E i \in 1..Len(SceneInputs) : obs_handle_scenes_press(i)

NextScenes ==
    \/ socket_init_spawn
    \/ ObsStatusNext
    \/ ScenesNext

SpecScenes == InitObs /\ [][NextScenes]_vars

\* The emulator listener alone: one write of any text over Alphabet, or of a
\* scenario text, read in any split.
Alphabet == {"5", "h", " ", "\n"}

SeqsUpTo(S, n) == UNION {[1..k -> S] : k \in 1..n}

ScenarioTexts ==
    { <<"5", " ", "h", "e", "l", "l", "o">>,
      <<"+", "5", " ", "h">>,
      <<"5", " ", "h", "C3", "A9">> }

Texts == SeqsUpTo(Alphabet, MaxText) \cup ScenarioTexts

InitDecoder ==
    /\ InitCommon
    /\ password = "right"
    /\ port \in {"free", "in_use"}
    /\ script \in {<<text>> : text \in Texts}

NextDecoder ==
    \/ socket_init_spawn
    \/ BizListenerNext
    \/ BizStreamNext
    \/ EmulatorClose
    \/ EmulatorReset

SpecDecoder == InitDecoder /\ [][NextDecoder]_vars

\* One emulator connection on which the emulator makes two writes: two
\* well-formed frames, or the frame "3 h" followed by "i there".
ConnScripts ==
    { << <<"5", " ", "h", "\n">>, <<"5", " ", "i", "\n">> >>,
      << <<"3", " ", "h">>, <<"i", " ", "t", "h", "e", "r", "e">> >> }

InitConn ==
    /\ InitCommon
    /\ password = "right"
    /\ port \in {"free", "in_use"}
    /\ script \in ConnScripts

SpecConn == InitConn /\ [][NextDecoder]_vars

\* The same connection with the runtime's scheduling: a task that can take
\* its next step (stream.readable() has resolved, try_read can be called) is
\* polled again.
SpecConnFair ==
    /\ InitConn
    /\ [][NextDecoder]_vars
    /\ WF_vars(handle_stream_readable)
    /\ WF_vars(handle_stream_try_read)

\* The hub between two publishing adapters (the status poll and the emulator
\* connection) and two consumers.
InitHub ==
    /\ InitCommon
    /\ password \in {"unset", "right"}
    /\ port = "free"
    /\ script = << <<"5", " ", "h">>, <<"3", " ", "i">> >>

NextHub ==
    \/ socket_init_spawn
    \/ GatewayNext(Consumers)
    \/ obs_handle_status_init
    \/ obs_handle_status_tick
    \/ BizListenerNext
    \/ BizStreamNext

SpecHub == InitHub /\ [][NextHub]_vars

\* ------------------------------------------------------------------ claims

\* The events of `events` in namespace ns, and those emitted by task t.
InNamespace(events, ns) == SelectSeq(events, LAMBDA e : e.ns = ns)
EmittedBy(events, t) == SelectSeq(events, LAMBDA e : e.by = t)

RECURSIVE Flatten(_)
Flatten(chunks) ==
    IF chunks = <<>> THEN <<>> ELSE Head(chunks) \o Flatten(Tail(chunks))

\* The payloads of the bizhawk:message events published so far.
Messages ==
    LET evs == InNamespace(published, "bizhawk:message")
    IN  [i \in 1..Len(evs) |-> evs[i].payload.text]

\* What the connection publishes when `text` arrives in one read.
SingleRead(text) ==
    IF decode(text).kind = "emit" THEN <<decode(text).message>> ELSE <<>>

\* C1: chunk-boundary invariance.  Once every byte the emulator wrote has
\* been read, in however many reads, the bizhawk:message events published
\* are those that one read of the whole text publishes.
C1_ChunkBoundaryInvariance ==
    (script = <<>> /\ wire = <<>> /\ consumed # <<>>)
        => Messages = SingleRead(Flatten(consumed))

\* How many events of namespace ns task t has published.
Count(t, ns) == Len(EmittedBy(InNamespace(published, ns), t))
CountAll(ns) == Len(InNamespace(published, ns))

\* Connection establishment has failed in task t: it has returned without
\* ever holding a Client.
ConnectFailedIn(t) == pc[t] \in Terminal /\ conn[t] = "none"

\* C2 as stated: when connection establishment fails, the run publishes
\* exactly one obs:error event in total, and no obs:microphone or obs:status.
C2_ExactlyOneObsError ==
    (\A t \in ObsTasks : ConnectFailedIn(t))
        => /\ CountAll("obs:error") = 1
           /\ CountAll("obs:microphone") = 0
           /\ CountAll("obs:status") = 0

\* C2 amended: when connection establishment fails, each of the two tasks
\* (handle_events, handle_status) publishes exactly one obs:error event as
\* its init fails and returns the error, so the run publishes exactly two
\* obs:error events in total, and never an obs:microphone or obs:status
\* event.
C2_OneObsErrorPerTask ==
    /\ \A t \in ObsTasks :
         conn[t] = "none" =>
             /\ pc[t] \in {"unspawned", "init", "err"}
             /\ Count(t, "obs:error") = (IF pc[t] = "err" THEN 1 ELSE 0)
             /\ Count(t, "obs:microphone") = 0
             /\ Count(t, "obs:status") = 0
    /\ (\A t \in ObsTasks : ConnectFailedIn(t)) =>
             /\ CountAll("obs:error") = 2
             /\ CountAll("obs:microphone") = 0
             /\ CountAll("obs:status") = 0
    /\ password # "right" => \A t \in ObsTasks : conn[t] = "none"

\* With a bad credential both tasks have failed to connect and the two
\* obs:error events are out.
C2_Witness ==
    /\ password = "wrong"
    /\ \A t \in ObsTasks : ConnectFailedIn(t)
    /\ CountAll("obs:error") = 2

\* C3: whenever the connection of a control-surface task fails, at
\* establishment or later, the task publishes obs:error exactly once before
\* it terminates: no task has terminated without exactly one obs:error of
\* its own.
C3_ErrorBeforeTermination ==
    \A t \in ObsTasks : pc[t] \in Terminal => Count(t, "obs:error") = 1

\* The muted values of the InputMuteStateChanged events among `events` whose
\* name is exactly the configured input name.
RECURSIVE ExactMatches(_)
ExactMatches(events) ==
    IF events = <<>> THEN <<>>
    ELSE LET e == Head(events)
         IN  (IF e.kind = "InputMuteStateChanged" /\ e.name = MicName
              THEN <<e.muted>> ELSE <<>>) \o ExactMatches(Tail(events))

\* C4: exact-match microphone filter.  The obs:microphone events published
\* are, in order, one per InputMuteStateChanged event taken from the
\* subscription whose name equals the configured input name exactly, each
\* carrying that event's muted value; any other event publishes nothing.
C4_ExactMatchFilter ==
    LET mic == InNamespace(published, "obs:microphone")
    IN  /\ [i \in 1..Len(mic) |-> mic[i].payload.muted] = ExactMatches(taken)
        /\ \A i \in 1..Len(mic) : mic[i].by = ObsEvents

\* An event whose name extends the configured one was taken and dropped, and
\* an exact match with muted = false was taken and published.
C4_Witness ==
    /\ \E i \in 1..Len(taken) : taken[i].name = MicName \o <<"b">>
    /\ \E i \in 1..Len(taken) : taken[i].name = MicName /\ ~taken[i].muted
    /\ CountAll("obs:microphone") = 1

Last(seq) == seq[Len(seq)]
IsPrefix(a, b) == Len(a) <= Len(b) /\ SubSeq(b, 1, Len(a)) = a

\* The bytes of a read are text whose first token is not a decimal number:
\* it holds a character that is neither a digit nor a sign.
NonNumericLength(data) ==
    /\ from_utf8_ok(data)
    /\ split_whitespace(data) # <<>>
    /\ \E i \in 1..Len(Head(split_whitespace(data))) :
         Head(split_whitespace(data))[i] \notin Digits \cup {"+", "-"}

\* A read of a frame with a non-numeric length token ends the connection's
\* task and nothing else: no other task moves, nothing is published or lost.
C5_RejectStep ==
    (consumed' # consumed /\ NonNumericLength(Last(consumed'))) =>
        /\ pc'[BizStream] = "panicked"
        /\ \A t \in Tasks \ {BizStream} : pc'[t] = pc[t]
        /\ pc'[BizListener] = "ok"
        /\ published' = published
        /\ sockets' = sockets

\* With the connection's task gone, its caller has returned Ok and the
\* gateway still takes consumers and sends to them.
C5_StillRunning ==
    pc[BizStream] = "panicked" =>
        /\ pc[BizListener] = "ok"
        /\ pc[Gateway] \in {"binding", "serving"} \/
             (pc[Gateway] = "panicked" /\ sockets = <<>>)
        /\ pc[Gateway] = "serving" =>
             IF "c1" \in DOMAIN sockets
             THEN sockets["c1"].buffer # <<>> => ENABLED SocketSend("c1")
             ELSE ENABLED ConsumerConnect("c1")

\* C5: a frame whose length token is not a decimal number is rejected without
\* crashing the decoder's caller: the failure ends the emulator connection's
\* task alone; bizhawk::handle_events, the other tasks and the gateway are
\* untouched and the gateway keeps serving.
C5_ParseFailureIsolated == []C5_StillRunning /\ [][C5_RejectStep]_vars

C5_Witness ==
    /\ pc[BizStream] = "panicked"
    /\ consumed # <<>> /\ NonNumericLength(Last(consumed))
    /\ pc[Gateway] = "serving"
    /\ "c1" \in DOMAIN sockets
    /\ pc[ObsStatus] = "polling"
    /\ published # <<>> /\ Last(published).ns = "obs:status"

\* What consumer c has received and is about to: observed, then buffered.
Received(c) == sockets[c].observed \o sockets[c].buffer

\* C6: per-source FIFO.  Any two events of the same adapter that a consumer
\* receives, it receives in the order the adapter published them, and each
\* is the event that was published.
C6_PerSourceFIFO ==
    \A c \in DOMAIN sockets :
        LET recv == Received(c)
        IN  /\ \A i \in 1..Len(recv) :
                 /\ recv[i].seq \in 1..Len(published)
                 /\ published[recv[i].seq] = recv[i]
            /\ \A i, j \in 1..Len(recv) :
                 (i < j /\ recv[i].by = recv[j].by) => recv[i].seq < recv[j].seq

\* A consumer has been sent two events of one adapter with an event of
\* another adapter between them.
C6_Witness ==
    \E c \in DOMAIN sockets :
        LET obs == sockets[c].observed
        IN  /\ Len(obs) = 3
            /\ obs[1].by = obs[3].by
            /\ obs[2].by # obs[1].by

\* The position an adapter's loop returns to after emitting in namespace ns.
LoopPosition(ns) ==
    IF ns = "bizhawk:message" THEN "waiting"
    ELSE IF ns = "obs:status" THEN "polling"
    ELSE IF ns = "obs:microphone" THEN "listening"
    ELSE "err"

\* A step that emits returns to the adapter in that step, at the place its
\* code goes on from, whatever the sockets hold; with no consumer the event
\* goes nowhere.
C7_EmitStep ==
    published' # published =>
        /\ pc'[Last(published').by] = LoopPosition(Last(published').ns)
        /\ DOMAIN sockets' = DOMAIN sockets
        /\ sockets = <<>> => sockets' = <<>>

\* An adapter that has something to emit can take its step whatever the
\* sockets hold.
C7_NoBackpressure ==
    Len(published) < MaxPublished =>
        /\ pc[ObsStatus] = "polling" => ENABLED obs_handle_status_tick
        /\ pc[BizStream] = "ready" => ENABLED handle_stream_try_read
        /\ pc[ObsStatus] = "init" => ENABLED obs_handle_status_init

\* C7: publish never blocks and never fails because of consumer state.
\* Every emit returns to the adapter in the same step with zero consumers,
\* some consumers or a consumer whose buffer is full, and the adapter goes
\* on with its loop.
C7_PublishNeverBlocks == []C7_NoBackpressure /\ [][C7_EmitStep]_vars

\* An event was dropped for a consumer whose buffer was full, and the
\* adapter that emitted it is back in its loop.
C7_Witness ==
    /\ published # <<>>
    /\ Last(published).ns \in {"bizhawk:message", "obs:status"}
    /\ pc[Last(published).by] = LoopPosition(Last(published).ns)
    /\ \E c \in DOMAIN sockets :
         /\ Len(sockets[c].buffer) = BufferCap
         /\ sockets[c].since < Len(published)
         /\ \A i \in 1..Len(Received(c)) : Received(c)[i] # Last(published)

\* The seq numbers of the events consumer c has received or has buffered.
Seqs(c) == {Received(c)[i].seq : i \in 1..Len(Received(c))}

\* C8 as stated: a connected consumer has (received or buffered) every event
\* published after its subscription, and no event published before it.
C8_NoReplayNoLoss ==
    \A c \in DOMAIN sockets :
        Seqs(c) = (sockets[c].since + 1)..Len(published)

\* No event published before the subscription reaches the consumer.
C8_NoReplay ==
    \A c \in DOMAIN sockets :
        \A i \in 1..Len(Received(c)) :
            /\ Received(c)[i].seq > sockets[c].since
            /\ Received(c)[i].seq <= Len(published)
            /\ published[Received(c)[i].seq] = Received(c)[i]

\* An emit queues the event for every connected consumer whose buffer is not
\* full and for no other; what is queued for a connected consumer stays, in
\* order, until it is sent.
C8_DeliveredUnlessFull ==
    /\ published' # published =>
         \A c \in DOMAIN sockets :
             /\ c \in DOMAIN sockets'
             /\ sockets'[c].observed = sockets[c].observed
             /\ sockets'[c].buffer =
                  IF Len(sockets[c].buffer) < BufferCap
                  THEN Append(sockets[c].buffer, Last(published'))
                  ELSE sockets[c].buffer
    /\ \A c \in DOMAIN sockets \cap DOMAIN sockets' :
         IsPrefix(Received(c), sockets'[c].observed \o sockets'[c].buffer)

\* C8 amended: a consumer that connects to the gateway observes, in order,
\* every event published after its subscription and while it stays
\* connected, except the events emitted while its socket's buffer was full
\* (BufferCap packets waiting), which emit drops for it; it observes no event
\* published before its subscription.
C8_NoReplayLossOnlyWhenFull == []C8_NoReplay /\ [][C8_DeliveredUnlessFull]_vars

\* An error event was published at startup, a consumer connected after it
\* and has been sent every event published since, and not the error.
C8_Witness ==
    /\ published # <<>>
    /\ published[1].ns = "obs:error"
    /\ \E c \in DOMAIN sockets :
         /\ sockets[c].since >= 1
         /\ Len(sockets[c].observed) >= 2
         /\ Seqs(c) = (sockets[c].since + 1)..Len(published)

\* A task that is running: spawned and neither returned nor panicked.
Running(p) == p \notin Terminal \cup {"unspawned"}

\* The step in which an adapter task terminates changes no other running
\* task, takes nothing back from the hub and removes nothing a consumer has
\* received or has buffered.
C9_TerminationStep ==
    \A t \in Adapters :
        (Running(pc[t]) /\ pc'[t] \in Terminal) =>
            /\ \A u \in Tasks \ {t} : Running(pc[u]) => pc'[u] = pc[u]
            /\ \A u \in Tasks \ {t} : pc'[u] \in Terminal => pc[u] \in Terminal
            /\ IsPrefix(published, published')
            /\ \A c \in DOMAIN sockets :
                 /\ c \in DOMAIN sockets'
                 /\ IsPrefix(Received(c),
                             sockets'[c].observed \o sockets'[c].buffer)

\* With any other adapter task terminated, an adapter that has something to
\* publish can take its step, and a serving gateway takes and serves
\* consumers.
C9_OthersGoOn ==
    (\E t \in Adapters : pc[t] \in Terminal) =>
        /\ Len(published) < MaxPublished =>
             /\ pc[ObsStatus] = "polling" => ENABLED obs_handle_status_tick
             /\ (pc[ObsEvents] = "listening" /\ obsEvents # <<>>)
                  => ENABLED obs_handle_events_next
             /\ pc[BizStream] = "ready" => ENABLED handle_stream_try_read
             /\ pc[BizListener] = "init" => ENABLED bizhawk_handle_events_init
        /\ pc[Gateway] = "serving" =>
             IF "c1" \in DOMAIN sockets
             THEN sockets["c1"].buffer # <<>> => ENABLED SocketSend("c1")
             ELSE ENABLED ConsumerConnect("c1")

\* C9: adapter isolation.  The termination of one adapter task (connect
\* failure, missing credential, bind failure, decode panic, I/O error) stops
\* no other adapter task from publishing, drops no event of another adapter,
\* and does not stop the gateway from serving consumers.
C9_AdapterIsolation == []C9_OthersGoOn /\ [][C9_TerminationStep]_vars

\* handle_events has failed to connect and the connection task has panicked;
\* the status poll goes on publishing and a consumer is sent its events.
C9_Witness ==
    /\ pc[ObsEvents] = "err"
    /\ pc[BizStream] = "panicked"
    /\ pc[ObsStatus] = "polling"
    /\ pc[Gateway] = "serving"
    /\ "c1" \in DOMAIN sockets
    /\ sockets["c1"].observed # <<>>
    /\ Last(sockets["c1"].observed).ns = "obs:status"
    /\ Last(sockets["c1"].observed).seq > 1
    /\ published[1].ns = "obs:error"

\* The bytes of a read are text of at least two whitespace-separated tokens,
\* the first a decimal number.
WellFormedFrame(data) ==
    /\ from_utf8_ok(data)
    /\ Len(split_whitespace(data)) >= 2
    /\ \A i \in 1..Len(Head(split_whitespace(data))) :
         Head(split_whitespace(data))[i] \in Digits

\* A payload is tokens joined by single spaces: no whitespace but " ", none
\* at either end, no two in a row.
SingleSpaced(text) ==
    /\ text # <<>>
    /\ \A i \in 1..Len(text) : text[i] \in Whitespace => text[i] = " "
    /\ text[1] # " " /\ text[Len(text)] # " "
    /\ \A i \in 1..(Len(text) - 1) : ~(text[i] = " " /\ text[i + 1] = " ")

Hello == <<"h", "e", "l", "l", "o">>

\* The read of a well-formed frame publishes exactly one bizhawk:message
\* event, whose payload is the tokens after the first joined by single
\* spaces, and the task goes back to waiting.
C10_FrameStep ==
    (consumed' # consumed /\ WellFormedFrame(Last(consumed'))) =>
        LET data == Last(consumed')
            body == Tail(split_whitespace(data))
        IN  /\ Len(published') = Len(published) + 1
            /\ IsPrefix(published, published')
            /\ Last(published').ns = "bizhawk:message"
            /\ Last(published').by = BizStream
            /\ Last(published').payload = [text |-> join(body)]
            /\ SingleSpaced(Last(published').payload.text)
            /\ split_whitespace(Last(published').payload.text) = body
            /\ data = <<"5", " ">> \o Hello
                 => Last(published').payload.text = Hello
            /\ pc'[BizStream] = "waiting"

Boundaries(chunks) ==
    {Len(Flatten(SubSeq(chunks, 1, k))) : k \in 0..Len(chunks)}

\* The body of a frame: what follows its length token.
Body(frame) == join(Tail(split_whitespace(frame)))

\* Every write was one well-formed frame, every byte written has been read,
\* and every read held complete frames only: it ended where a write ended.
CompleteFramesRead ==
    /\ script = <<>> /\ wire = <<>> /\ written # <<>>
    /\ \A i \in 1..Len(written) : WellFormedFrame(written[i])
    /\ Boundaries(consumed) \subseteq Boundaries(written)

\* C11: one event per decoded frame.  When complete well-formed frames have
\* been delivered on the connection, also two or more in one read, there are
\* as many bizhawk:message events as frames and the i-th payload is the body
\* of the i-th frame.
C11_OneEventPerFrame ==
    CompleteFramesRead =>
        Messages = [i \in 1..Len(written) |-> Body(written[i])]

RECURSIVE FrameAttempts(_)
\* What decoding each piece of `pieces` as a frame of its own publishes,
\* stopping at the first piece that is rejected.
FrameAttempts(pieces) ==
    IF pieces = <<>> THEN <<>>
    ELSE IF SingleRead(Head(pieces)) = <<>> THEN <<>>
    ELSE SingleRead(Head(pieces)) \o FrameAttempts(Tail(pieces))

ThreeH == <<"3", " ", "h">>
IThere == <<"i", " ", "t", "h", "e", "r", "e">>

StatusEvents == InNamespace(published, "obs:status")
SucceededPolls == SelectSeq(polls, LAMBDA p : p.ok)

\* C13: the status poll.  Every tick makes one status request; the obs:status
\* events are, one for one and in order, the results of the requests that
\* succeeded, all published by handle_status.  The only failed request is the
\* last one made: it has ended the poll with an error, and nothing was
\* published for it.
C13_OneStatusPerTick ==
    /\ Len(StatusEvents) = Len(SucceededPolls)
    /\ \A i \in 1..Len(StatusEvents) :
         /\ StatusEvents[i].by = ObsStatus
         /\ StatusEvents[i].payload = [status |-> SucceededPolls[i].status]
    /\ \A i \in 1..Len(polls) :
         ~polls[i].ok =>
             /\ i = Len(polls)
             /\ pc[ObsStatus] = "err"
             /\ Len(StatusEvents) = i - 1
    /\ pc[ObsStatus] = "polling" => Len(polls) = Len(StatusEvents)

\* Two ticks have published two events and the third request has failed.
C13_Witness ==
    /\ Len(polls) = 3
    /\ polls[1].ok /\ polls[2].ok /\ ~polls[3].ok
    /\ polls[1].status # polls[2].status
    /\ Len(StatusEvents) = 2
    /\ pc[ObsStatus] = "err"

\* With the port taken, the listener task gets no further than init(): it has
\* published bizhawk:error once it has returned the error and not before,
\* no connection is accepted, no handle_stream task exists and no
\* bizhawk:message is published.
C14_NoListener ==
    port = "in_use" =>
        /\ pc[BizListener] \in {"unspawned", "init", "err"}
        /\ Count(BizListener, "bizhawk:error")
             = IF pc[BizListener] = "err" THEN 1 ELSE 0
        /\ CountAll("bizhawk:error") = Count(BizListener, "bizhawk:error")
        /\ CountAll("bizhawk:message") = 0
        /\ pc[BizStream] = "unspawned"
        /\ peer = "none" /\ consumed = <<>>

\* After the bind failure the other tasks take their steps as before.
C14_RestGoesOn ==
    (port = "in_use" /\ pc[BizListener] = "err") =>
        /\ Len(published) < MaxPublished =>
             /\ pc[ObsStatus] = "polling" => ENABLED obs_handle_status_tick
             /\ (pc[ObsEvents] = "listening" /\ obsEvents # <<>>)
                  => ENABLED obs_handle_events_next
        /\ pc[Gateway] = "binding" => ENABLED socket_init_serve
        /\ pc[Gateway] = "serving" =>
             IF "c1" \in DOMAIN sockets
             THEN sockets["c1"].buffer # <<>> => ENABLED SocketSend("c1")
             ELSE ENABLED ConsumerConnect("c1")

\* The step in which the listener task returns the bind error moves no
\* other task and publishes exactly the one bizhawk:error event.
C14_BindFailureStep ==
    (pc[BizListener] = "init" /\ pc'[BizListener] # "init"
       /\ port = "in_use") =>
        /\ pc'[BizListener] = "err"
        /\ \A u \in Tasks \ {BizListener} : pc'[u] = pc[u]
        /\ Len(published') = Len(published) + 1
        /\ Last(published').ns = "bizhawk:error"
        /\ Last(published').by = BizListener

\* C14: bind failure.  When binding the emulator port fails, handle_events
\* publishes exactly one bizhawk:error, accepts no connection, publishes no
\* bizhawk:message and returns the error, and the rest of the process keeps
\* running.
C14_BindFailure ==
    [](C14_NoListener /\ C14_RestGoesOn) /\ [][C14_BindFailureStep]_vars

\* The bind has failed, and the status poll has published after the
\* bizhawk:error event while the gateway serves.
C14_Witness ==
    /\ port = "in_use"
    /\ pc[BizListener] = "err"
    /\ pc[Gateway] = "serving"
    /\ pc[ObsStatus] = "polling"
    /\ \E i, j \in 1..Len(published) :
         /\ i < j
         /\ published[i].ns = "bizhawk:error"
         /\ published[j].ns = "obs:status"

\* C15: termination of the read loop.  After the peer has closed the
\* connection and every byte it wrote has been read, handle_stream
\* eventually terminates instead of looping on zero-length reads.
C15_TerminatesAfterClose ==
    (peer = "closed" /\ wire = <<>>) ~> (pc[BizStream] \in Terminal)

ErrorNamespaces == {"obs:error", "bizhawk:error"}

\* Adapter task t has come to its end, or its connection is gone with nothing
\* left to take from it: the task has returned or panicked, the status
\* poll's client has lost its connection, the event subscription has lost
\* its connection and holds no event, or the emulator connection is reset, or
\* closed with every byte read.
Disconnected(t) ==
    \/ pc[t] \in Terminal
    \/ t = ObsStatus /\ conn[ObsStatus] = "lost"
    \/ t = ObsEvents /\ conn[ObsEvents] = "lost" /\ obsEvents = <<>>
    \/ t = BizStream /\ (peer = "reset" \/ (peer = "closed" /\ wire = <<>>))

\* A disconnected adapter publishes nothing in any later step, and a task
\* that has returned or panicked stays so: nothing reconnects it.
C16_NoPublishStep ==
    \A t \in Adapters :
        Disconnected(t) =>
            /\ EmittedBy(published', t) = EmittedBy(published, t)
            /\ pc[t] \in Terminal => pc'[t] = pc[t]

\* An error event is the last event of the adapter that published it, and
\* that adapter has returned the error.
C16_ErrorIsLast ==
    \A t \in Adapters :
        LET mine == EmittedBy(published, t)
        IN  \A i \in 1..Len(mine) :
              mine[i].ns \in ErrorNamespaces =>
                  i = Len(mine) /\ pc[t] = "err"

C17_AcceptStep ==
    /\ pc[BizListener] = "accepting" =>
         \/ pc'[BizListener] = "accepting" /\ pc'[BizStream] = pc[BizStream]
         \/ /\ pc'[BizListener] = "ok"
            /\ pc[BizStream] = "unspawned"
            /\ pc'[BizStream] \in {"unspawned", "waiting"}
            /\ published' = published
    /\ (pc[BizStream] = "unspawned" /\ pc'[BizStream] # "unspawned") =>
         pc[BizListener] = "accepting" /\ pc'[BizListener] = "ok"

\* Once the listener has returned it never accepts again, and once the one
\* handle_stream task has ended no other takes its place: the emulator
\* connection stays as it ended and no bizhawk:message is published.
C17_NoSecondConnection ==
    /\ pc[BizListener] \in Terminal => pc'[BizListener] = pc[BizListener]
    /\ pc[BizStream] \in Terminal =>
         /\ pc'[BizStream] = pc[BizStream]
         /\ Messages' = Messages
         /\ consumed' = consumed
    /\ (pc[BizListener] = "ok" /\ pc[BizStream] = "unspawned") =>
         pc'[BizStream] = "unspawned" /\ peer' = "none"

\* Every bizhawk:message comes from the one handle_stream task, which exists
\* only when the listener has accepted and returned.
C17_OneStream ==
    /\ \A i \in 1..Len(published) :
         published[i].ns = "bizhawk:message" => published[i].by = BizStream
    /\ pc[BizStream] # "unspawned" => pc[BizListener] = "ok"
    /\ (pc[BizListener] = "ok" /\ pc[BizStream] = "unspawned") =>
         CountAll("bizhawk:message") = 0 /\ peer = "none"

\* C17: single accepted connection.  handle_events binds once and calls
\* accept once; at most one handle_stream task ever exists; a connection
\* attempt after the first is never accepted and produces no
\* bizhawk:message; a failed accept publishes no event and ends the listener.
C17_SingleConnection ==
    /\ []C17_OneStream
    /\ [][C17_AcceptStep /\ C17_NoSecondConnection]_vars

\* The listener has returned, the one connection has published and ended
\* with the emulator's second write still to come.
C17_Witness ==
    /\ pc[BizListener] = "ok"
    /\ pc[BizStream] \in Terminal
    /\ Len(Messages) = 1
    /\ script # <<>>

\* The calls handle_scenes has made are the first of the three refreshes, in
\* order and once each, whatever their results; it makes none before it has
\* connected, it returns Ok after the third and an error only when the
\* connect failed; it publishes nothing.
C18_RefreshesInOrder ==
    /\ Len(pressed) <= Len(SceneInputs)
    /\ \A i \in 1..Len(pressed) :
         /\ pressed[i].input = SceneInputs[i]
         /\ pressed[i].button = "refreshnocache"
    /\ \A i \in 1..Len(SceneInputs) :
         pc[Scenes] = ScenePositions[i] => Len(pressed) = i - 1
    /\ pc[Scenes] = "ok" => Len(pressed) = Len(SceneInputs)
    /\ pc[Scenes] \in {"init", "err"} => pressed = <<>>
    /\ pc[Scenes] # "panicked"
    /\ password # "right" => pc[Scenes] \in {"init", "err"}
    /\ EmittedBy(published, Scenes) = <<>>

\* A step of handle_scenes publishes nothing and moves no other task.
C18_ScenesStep ==
    pc'[Scenes] # pc[Scenes] =>
        /\ published' = published
        /\ \A u \in Tasks \ {Scenes} : pc'[u] = pc[u]

\* C18: handle_scenes.  After a successful connect each of the three browser
\* source refreshes is invoked exactly once, in order; a failed refresh
\* neither prevents the following ones, nor publishes an event, nor makes
\* handle_scenes return an error; when the connect fails no refresh is
\* invoked and the task publishes no event, not even obs:error.
C18_HandleScenes == []C18_RefreshesInOrder /\ [][C18_ScenesStep]_vars

\* The first two refreshes failed, the third was still made, and
\* handle_scenes returned Ok.
C18_Witness ==
    /\ pc[Scenes] = "ok"
    /\ Len(pressed) = 3
    /\ ~pressed[1].ok /\ ~pressed[2].ok /\ pressed[3].ok
    /\ published = <<>>

\* A read of one or more bytes, all of them whitespace.
Blank(data) == data # <<>> /\ \A i \in 1..Len(data) : data[i] \in Whitespace

\* The read of a blank chunk panics the connection's task and publishes
\* nothing; a read that returns no byte leaves the task in its loop with
\* nothing published or consumed; any read of at least one byte publishes or
\* ends the task.
C19_BlankReadStep ==
    /\ (consumed' # consumed /\ Blank(Last(consumed'))) =>
         /\ pc'[BizStream] = "panicked"
         /\ published' = published
         /\ \A u \in Tasks \ {BizStream} : pc'[u] = pc[u]
    /\ (pc[BizStream] = "ready" /\ pc'[BizStream] # "ready"
          /\ wire = <<>> /\ peer # "reset") =>
         /\ pc'[BizStream] = "waiting"
         /\ published' = published /\ consumed' = consumed
    /\ consumed' # consumed =>
         published' # published \/ pc'[BizStream] \in Terminal

\* A blank read is the last read of the task; the task has panicked, not
\* returned: there is no bizhawk:error and no bizhawk:message for the read.
C19_BlankReadIsLast ==
    \A i \in 1..Len(consumed) :
        Blank(consumed[i]) =>
            /\ i = Len(consumed)
            /\ pc[BizStream] = "panicked"
            /\ Len(Messages) = i - 1
            /\ CountAll("bizhawk:error") = 0

\* C19: whitespace-only read.  A non-empty read that holds no token makes
\* handle_stream panic on the missing length token, which ends the task
\* without a bizhawk:message or a bizhawk:error; only a zero-byte read is a
\* no-op.
C19_WhitespaceOnlyRead == []C19_BlankReadIsLast /\ [][C19_BlankReadStep]_vars

\* "5 h" was published from a first read, then the blank rest of the write
\* was read and the task panicked.
C19_Witness ==
    /\ Len(consumed) = 2
    /\ consumed[1] = <<"5", " ", "h">>
    /\ consumed[2] = <<" ", "\n">>
    /\ pc[BizStream] = "panicked"
    /\ Len(Messages) = 1

\* The bytes do not decode as UTF-8: a lead byte with no continuation byte
\* after it, or a continuation byte with no lead byte before it.
InvalidUtf8(data) ==
    \E i \in 1..Len(data) :
        \/ data[i] = "C3" /\ (i = Len(data) \/ data[i + 1] # "A9")
        \/ data[i] = "A9" /\ (i = 1 \/ data[i - 1] # "C3")

\* The read of bytes that are not valid UTF-8 makes handle_stream return an
\* error, publishes nothing and moves no other task.
C20_InvalidReadStep ==
    (consumed' # consumed /\ InvalidUtf8(Last(consumed'))) =>
        /\ pc'[BizStream] = "err"
        /\ published' = published
        /\ \A u \in Tasks \ {BizStream} : pc'[u] = pc[u]

\* An invalid read is the last read of the task: what was on the wire after
\* it is never decoded, and no bizhawk:message or bizhawk:error stands for
\* it.
C20_InvalidReadIsLast ==
    \A i \in 1..Len(consumed) :
        InvalidUtf8(consumed[i]) =>
            /\ i = Len(consumed)
            /\ pc[BizStream] = "err"
            /\ Len(Messages) = i - 1
            /\ CountAll("bizhawk:error") = 0

\* C20: invalid UTF-8 read.  A read whose bytes are not valid UTF-8, also one
\* that ends in the middle of a multi-byte character, makes handle_stream
\* return an error and ends the task; no bizhawk:message and no
\* bizhawk:error is published for it and no later data is decoded.
C20_InvalidUtf8Read == []C20_InvalidReadIsLast /\ [][C20_InvalidReadStep]_vars

\* The read ended between the two bytes of the last character: the task has
\* returned an error with the second byte still unread and nothing
\* published.
C20_Witness ==
    /\ consumed = << <<"5", " ", "h", "C3">> >>
    /\ wire = <<"A9">>
    /\ pc[BizStream] = "err"
    /\ published = <<>>

====
